---- MODULE Spec2Model ----
(***************************************************************************)
(* pgraster_wkb_reader (plugins/input/pgraster/pgraster_wkb_reader.cpp):   *)
(* the decoder of a PostGIS raster WKB buffer into a mapnik raster.        *)
(*                                                                         *)
(* The state is the reader object (input buffer, cursor ptr_, numBands_,   *)
(* width_, height_), the locals of get_raster / read_grayscale / read_rgb, *)
(* the raster under construction, the value handed to the caller and the   *)
(* warnings logged.  One action per read of the cursor: the position in    *)
(* the code is pc.                                                         *)
(***************************************************************************)
EXTENDS Integers, Sequences, FiniteSets, TLC

\* ------------------------------------------------------------------ bounds

\* Largest raster width and height of the inputs that are enumerated.
MaxW == 2
MaxH == 2

\* ------------------------------------------------------- program constants

PT_8BSI == 3
PT_8BUI == 4
BANDTYPE_PIXTYPE_MASK == 15
BANDTYPE_FLAG_OFFDB == 128
BANDTYPE_FLAG_HASNODATA == 64

\* ------------------------------------------------------------ arithmetic

RECURSIVE Pow2(_)
Pow2(n) == IF n = 0 THEN 1 ELSE 2 * Pow2(n - 1)

RECURSIVE Log2(_)
\* floor(log2(a)) for a >= 1
Log2(a) == IF a < 2 THEN 0 ELSE 1 + Log2(a \div 2)

Abs(v) == IF v < 0 THEN 0 - v ELSE v
Min(a, b) == IF a < b THEN a ELSE b
Max(a, b) == IF a < b THEN b ELSE a

\* x & mask, for a mask 2^k - 1 (the low bits)
LowBits(xv, mask) == xv % (mask + 1)
\* (x & flag) != 0, for a one-bit flag
HasBit(xv, flag) == (xv \div flag) % 2 = 1

Reverse(s) == [i \in 1..Len(s) |-> s[Len(s) + 1 - i]]

RECURSIVE Flatten(_)
Flatten(ss) == IF ss = <<>> THEN <<>> ELSE Head(ss) \o Flatten(Tail(ss))

\* ------------------------------------------------------------- doubles
\* A double is tracked exactly when it is an integer of magnitude below
\* 2^21 (k = "int"); every other bit pattern (fraction, subnormal, huge,
\* infinity, NaN) is k = "nonint": a value that is not zero.  The result of
\* arithmetic on an untracked value is k = "unknown".

DInt(v) == [k |-> "int", v |-> v]
DNonInt == [k |-> "nonint", v |-> 0]
DUnknown == [k |-> "unknown", v |-> 0]

\* The value of the IEEE-754 double whose 64 bits are the bytes b[1] (most
\* significant) .. b[8].
DoubleOfBits(b) ==
    LET neg == b[1] >= 128
        e == (b[1] % 128) * 16 + (b[2] \div 16)
        m20 == (b[2] % 16) * 65536 + b[3] * 256 + b[4]
        lowZero == b[5] = 0 /\ b[6] = 0 /\ b[7] = 0 /\ b[8] = 0
        E == e - 1023
    IN  IF e = 0 /\ m20 = 0 /\ lowZero THEN DInt(0)
        ELSE IF e >= 1023 /\ e <= 1043 /\ lowZero /\ m20 % Pow2(20 - E) = 0
             THEN LET a == Pow2(E) + (m20 \div Pow2(20 - E))
                  IN  DInt(IF neg THEN 0 - a ELSE a)
        ELSE DNonInt

\* C++ conversion of a double to bool: false for +0.0 and -0.0 only.
DoubleTruthy(d) == ~(d.k = "int" /\ d.v = 0)

\* n * d for an integer n converted to double.
DoubleTimes(n, d) == IF d.k = "int" THEN DInt(n * d.v) ELSE DUnknown
DoublePlus(a, b) == IF a.k = "int" /\ b.k = "int" THEN DInt(a.v + b.v) ELSE DUnknown

\* ------------------------------------------------------------ the input
\* A descriptor is what the producer of the buffer encoded: the header
\* fields and, per band, the tag byte, the nodata byte and width*height
\* payload bytes.  A float field is an integer (k = "int"), negative zero
\* (k = "negzero") or a NaN (k = "nan").

FInt(v) == [k |-> "int", v |-> v]
FNegZero == [k |-> "negzero", v |-> 0]
FNaN == [k |-> "nan", v |-> 0]

\* The double a float field of the descriptor denotes.
FieldValue(f) ==
    IF f.k = "int" THEN DInt(f.v) ELSE IF f.k = "negzero" THEN DInt(0) ELSE DNonInt

\* The 8 bytes of a float field, most significant first.
FloatBytesBE(f) ==
    IF f.k = "nan" THEN <<127, 248, 0, 0, 0, 0, 0, 0>>
    ELSE IF f.k = "negzero" THEN <<128, 0, 0, 0, 0, 0, 0, 0>>
    ELSE IF f.v = 0 THEN <<0, 0, 0, 0, 0, 0, 0, 0>>
    ELSE LET a == Abs(f.v)
             E == Log2(a)
             e == E + 1023
             m20 == (a - Pow2(E)) * Pow2(20 - E)
             s == IF f.v < 0 THEN 128 ELSE 0
         IN  << s + (e \div 16), (e % 16) * 16 + (m20 \div 65536),
                (m20 \div 256) % 256, m20 % 256, 0, 0, 0, 0 >>

EncFloat64(f, le) == IF le # 0 THEN Reverse(FloatBytesBE(f)) ELSE FloatBytesBE(f)
EncUint16(v, le) ==
    IF le # 0 THEN << v % 256, v \div 256 >> ELSE << v \div 256, v % 256 >>
EncInt32(v, le) ==
    LET be == << (v \div 16777216) % 256, (v \div 65536) % 256, (v \div 256) % 256, v % 256 >>
    IN  IF le # 0 THEN Reverse(be) ELSE be

\* Payload byte i (0-based, row-major) of band k: 10, 20, 30, ... in band 0,
\* 13, 23, ... in band 1, 16, 26, ... in band 2.
PixelByte(k, i) == (10 * (i + 1) + 3 * k) % 256

EncBand(d, k) ==
    << d.bands[k + 1].tag, d.bands[k + 1].nodata >>
    \o [i \in 1..(d.width * d.height) |-> PixelByte(k, i - 1)]

\* The wire encoding of a descriptor: the header fields, then the bands.
Encode(d) ==
    << d.le >> \o EncUint16(d.version, d.le) \o EncUint16(d.nBands, d.le)
    \o EncFloat64(d.scaleX, d.le) \o EncFloat64(d.scaleY, d.le)
    \o EncFloat64(d.ipX, d.le) \o EncFloat64(d.ipY, d.le)
    \o EncFloat64(d.skewX, d.le) \o EncFloat64(d.skewY, d.le)
    \o EncInt32(d.srid, d.le)
    \o EncUint16(d.width, d.le) \o EncUint16(d.height, d.le)
    \o Flatten([k \in 1..d.nBands |-> EncBand(d, k - 1)])

\* ------------------------------------------------------------ the state

VARIABLES
    wkb_,        \* the input buffer handed to the reader (a sequence of bytes)
    beyond,      \* the bytes that lie in memory right after the buffer
    ptr_,        \* the cursor, as an offset from the start of the buffer
    pc,          \* the position in get_raster / read_grayscale / read_rgb
    hdr,         \* get_raster's locals: endian, version, scale, ip, skew, srid
    numBands_,   \* member numBands_
    width_,      \* member width_
    height_,     \* member height_
    raster,      \* the raster made at line 319: ext, width, height, data_, flag
    result,      \* what the caller gets: "pending", "raster", "null", "crash"
    log,         \* the MAPNIK_LOG_WARN lines, in order: <<what, band>>
    bn,          \* read_rgb's band index
    x, y,        \* the pixel loops' indices
    nodataval,   \* read_rgb's local nodataval; -1 while it is uninitialized
    bands,       \* history: the band headers read so far (offset, type, nodata)
    desc,        \* the descriptor the buffer encodes (the producer's view)
    prev         \* the outcome of the caller's previous decode, or <<>>

vars == << wkb_, beyond, ptr_, pc, hdr, numBands_, width_, height_, raster,
           result, log, bn, x, y, nodataval, bands, desc, prev >>

wkbsize == Len(wkb_)

\* ------------------------------------------------------------ the cursor

\* The byte at offset off: of the buffer, or past its end of whatever lies
\* in memory there.
MemAt(off) ==
    IF off < Len(wkb_) THEN wkb_[off + 1] ELSE beyond[off - Len(wkb_) + 1]

\* n bytes at offset from can be read without a fault.
Mapped(from, n) == from + n <= Len(wkb_) + Len(beyond)
\* n bytes at offset from lie inside the buffer.
InBuf(from, n) == from + n <= Len(wkb_)

read_uint8(from) == [val |-> MemAt(from), ptr |-> from + 1]

read_uint16(from, littleEndian) ==
    [val |-> IF littleEndian # 0
             THEN MemAt(from) + MemAt(from + 1) * 256
             ELSE MemAt(from) * 256 + MemAt(from + 1),
     ptr |-> from + 2]

\* A faulty variant of read_float64: the cursor advances by 4, as in read_uint32.
read_float64_advance4(from, littleEndian) ==
    [val |-> DoubleOfBits(IF littleEndian # 0
                          THEN [i \in 1..8 |-> MemAt(from + 8 - i)]
                          ELSE [i \in 1..8 |-> MemAt(from + i - 1)]),
     ptr |-> from + 4]

\* ret.i as its 8 bytes, most significant first, reinterpreted as a double
read_float64(from, littleEndian) ==
    [val |-> DoubleOfBits(IF littleEndian # 0
                          THEN [i \in 1..8 |-> MemAt(from + 8 - i)]
                          ELSE [i \in 1..8 |-> MemAt(from + i - 1)]),
     ptr |-> from + 8]

\* the uint32 as its 4 bytes, most significant first
read_uint32(from, littleEndian) ==
    [val |-> IF littleEndian # 0
             THEN [i \in 1..4 |-> MemAt(from + 4 - i)]
             ELSE [i \in 1..4 |-> MemAt(from + i - 1)],
     ptr |-> from + 4]

\* the conversion of the uint32 to int32 (two's complement)
read_int32(from, littleEndian) ==
    LET r == read_uint32(from, littleEndian)
        b == r.val
        top == IF b[1] >= 128 THEN b[1] - 256 ELSE b[1]
    IN  [val |-> top * 16777216 + b[2] * 65536 + b[3] * 256 + b[4], ptr |-> r.ptr]

BANDTYPE_PIXTYPE(t) == LowBits(t, BANDTYPE_PIXTYPE_MASK)
BANDTYPE_IS_OFFDB(t) == HasBit(t, BANDTYPE_FLAG_OFFDB)
BANDTYPE_HAS_NODATA(t) == HasBit(t, BANDTYPE_FLAG_HASNODATA)

\* A faulty variant of UnsupportedPixtype: the lower bound of the range is not tested.
UnsupportedPixtype_upper_only(pixtype) == pixtype > PT_8BUI

\* The test of lines 180 and 236: the pixel type is not an 8-bit integer.
UnsupportedPixtype(pixtype) == pixtype > PT_8BUI \/ pixtype < PT_8BSI

\* ------------------------------------------------------------ the raster

NoRaster == [made |-> FALSE]

\* box2d<double>(x0, y0, x1, y1): the constructor orders each axis.
box2d(x0, y0, x1, y1) ==
    IF x0.k = "int" /\ y0.k = "int" /\ x1.k = "int" /\ y1.k = "int"
    THEN [minx |-> DInt(Min(x0.v, x1.v)), miny |-> DInt(Min(y0.v, y1.v)),
          maxx |-> DInt(Max(x0.v, x1.v)), maxy |-> DInt(Max(y0.v, y1.v))]
    ELSE [minx |-> DUnknown, miny |-> DUnknown, maxx |-> DUnknown, maxy |-> DUnknown]

\* A faulty variant of RasterExtent: width_ and height_ exchanged.
RasterExtent_swapped(ipX, ipY, scaleX, scaleY, w, h) ==
    box2d(ipX, ipY, DoublePlus(ipX, DoubleTimes(h, scaleX)),
          DoublePlus(ipY, DoubleTimes(w, scaleY)))

\* line 316: ext(ipX, ipY, ipX + width_*scaleX, ipY + height_*scaleY)
RasterExtent(ipX, ipY, scaleX, scaleY, w, h) ==
    box2d(ipX, ipY, DoublePlus(ipX, DoubleTimes(w, scaleX)),
          DoublePlus(ipY, DoubleTimes(h, scaleY)))

\* line 319: make_shared<raster>(ext, width_, height_); data_ is w*h pixels
\* of 4 bytes.
NewRaster(ext, w, h) ==
    [made |-> TRUE, ext |-> ext, width |-> w, height |-> h,
     data |-> [i \in 1..(w * h * 4) |-> 0], premultiplied_alpha_ |-> FALSE]

\* image.set(0xffffffff); raster->premultiplied_alpha_ = true;
SetWhite(r) ==
    [r EXCEPT !.data = [i \in 1..Len(r.data) |-> 255], !.premultiplied_alpha_ = TRUE]

\* A faulty variant of PixelOff: the row stride taken from height_.
PixelOff_height_stride(yy, xx) == yy * height_ * 4 + xx * 4

\* lines 198 and 264: int off = y * width_ * ps + x * ps, with ps = 4
PixelOff(yy, xx) == yy * width_ * 4 + xx * 4

\* lines 200-202: the gray value goes to the first three bytes of the pixel
StoreGray(data, off, val) ==
    [data EXCEPT ![off + 1] = val, ![off + 2] = val, ![off + 3] = val]

\* A faulty variant of StoreBand: the ABGR order of the commented-out line 261,
\* optr[ps - bn - 1] = val.
StoreBand_abgr(data, off, band, val) == [data EXCEPT ![off + (4 - band - 1) + 1] = val]

\* line 266: image_data[off+bn] = val
StoreBand(data, off, band, val) == [data EXCEPT ![off + band + 1] = val]

\* The values an uninitialized uint8_t on the stack may hold.
StackGarbage == {0, 255}

Warn(what, band) == Append(log, << what, band >>)

hdrVars == << hdr, numBands_, width_, height_ >>
loopVars == << bn, x, y, nodataval, bands >>
inputVars == << wkb_, beyond, desc, prev >>

\* ----------------------------------------------------------- get_raster

\* lines 276-278
ReadEndian ==
    /\ pc = "endian" /\ Mapped(ptr_, 1)
    /\ hdr' = [hdr EXCEPT !.endian = MemAt(ptr_)]
    /\ ptr_' = ptr_ + 1
    /\ pc' = "version"
    /\ UNCHANGED << numBands_, width_, height_, raster, result, log, loopVars, inputVars >>

\* lines 281-286
ReadVersion ==
    /\ pc = "version" /\ Mapped(ptr_, 2)
    /\ LET r == read_uint16(ptr_, hdr.endian)
       IN  /\ ptr_' = r.ptr
           /\ hdr' = [hdr EXCEPT !.version = r.val]
           /\ IF r.val # 0
              THEN /\ log' = Warn("version", -1)
                   /\ result' = "null"
                   /\ pc' = "done"
              ELSE /\ pc' = "numBands"
                   /\ UNCHANGED << log, result >>
    /\ UNCHANGED << numBands_, width_, height_, raster, loopVars, inputVars >>

\* line 288
ReadNumBands ==
    /\ pc = "numBands" /\ Mapped(ptr_, 2)
    /\ LET r == read_uint16(ptr_, hdr.endian)
       IN  ptr_' = r.ptr /\ numBands_' = r.val
    /\ pc' = "scaleX"
    /\ UNCHANGED << hdr, width_, height_, raster, result, log, loopVars, inputVars >>

\* One read_float64 into the local named by pc; next is the position after it.
ReadDouble(field, next) ==
    /\ pc = field /\ Mapped(ptr_, 8)
    /\ LET r == read_float64(ptr_, hdr.endian)
       IN  ptr_' = r.ptr /\ hdr' = [hdr EXCEPT ![field] = r.val]
    /\ pc' = next
    /\ UNCHANGED << numBands_, width_, height_, raster, result, log, loopVars, inputVars >>

\* lines 289-294
ReadScaleX == ReadDouble("scaleX", "scaleY")
ReadScaleY == ReadDouble("scaleY", "ipX")
ReadIpX == ReadDouble("ipX", "ipY")
ReadIpY == ReadDouble("ipY", "skewX")
ReadSkewX == ReadDouble("skewX", "skewY")
ReadSkewY == ReadDouble("skewY", "srid")

\* line 295
ReadSrid ==
    /\ pc = "srid" /\ Mapped(ptr_, 4)
    /\ LET r == read_int32(ptr_, hdr.endian)
       IN  ptr_' = r.ptr /\ hdr' = [hdr EXCEPT !.srid = r.val]
    /\ pc' = "width"
    /\ UNCHANGED << numBands_, width_, height_, raster, result, log, loopVars, inputVars >>

\* line 296
ReadWidth ==
    /\ pc = "width" /\ Mapped(ptr_, 2)
    /\ LET r == read_uint16(ptr_, hdr.endian)
       IN  ptr_' = r.ptr /\ width_' = r.val
    /\ pc' = "height"
    /\ UNCHANGED << hdr, numBands_, height_, raster, result, log, loopVars, inputVars >>

\* line 297
ReadHeight ==
    /\ pc = "height" /\ Mapped(ptr_, 2)
    /\ LET r == read_uint16(ptr_, hdr.endian)
       IN  ptr_' = r.ptr /\ height_' = r.val
    /\ pc' = "check"
    /\ UNCHANGED << hdr, numBands_, width_, raster, result, log, loopVars, inputVars >>

\* A faulty variant of Rotated: skewY is not tested.
Rotated_skewX_only(skewX, skewY) == DoubleTruthy(skewX)

\* line 311: if ( skewX || skewY )
Rotated(skewX, skewY) == DoubleTruthy(skewX) \/ DoubleTruthy(skewY)

\* A faulty variant of BandCountCase: no default case, every other count is read as RGB.
BandCountCase_no_default(n) == IF n = 1 THEN "read_grayscale" ELSE "read_rgb"

\* line 321: the band counts the switch has a case for
BandCountCase(n) == IF n = 1 THEN "read_grayscale" ELSE IF n = 3 THEN "read_rgb" ELSE "default"

\* lines 311-332: the rotation check, the extent, the raster, the switch
MakeRaster ==
    /\ pc = "check"
    /\ IF Rotated(hdr.skewX, hdr.skewY)
       THEN /\ log' = Warn("rotation", -1)
            /\ result' = "null"
            /\ pc' = "done"
            /\ UNCHANGED raster
       ELSE LET ext == RasterExtent(hdr.ipX, hdr.ipY, hdr.scaleX, hdr.scaleY, width_, height_)
                to == BandCountCase(numBands_)
            IN  IF to = "default"
                THEN /\ log' = Warn("bandcount", -1)
                     /\ result' = "null"
                     /\ pc' = "done"
                     /\ raster' = NoRaster
                ELSE /\ raster' = NewRaster(ext, width_, height_)
                     /\ pc' = to
                     /\ UNCHANGED << log, result >>
    /\ UNCHANGED << ptr_, hdrVars, loopVars, inputVars >>

\* ------------------------------------------------------- read_grayscale

Last(sq) == sq[Len(sq)]

\* The band header record kept when a type byte is read at the cursor.
BandRead(t) == [off |-> ptr_, type |-> t, nodata |-> -1]

\* return raster (line 334), after read_grayscale or read_rgb has returned
ReturnRaster == result' = "raster" /\ pc' = "done"

\* lines 157-184: white image, the type byte, the two early returns
GrayType ==
    /\ pc = "read_grayscale" /\ Mapped(ptr_, 1)
    /\ raster' = SetWhite(raster)
    /\ LET r == read_uint8(ptr_)
           type == r.val
       IN  /\ ptr_' = r.ptr
           /\ bands' = Append(bands, BandRead(type))
           /\ IF BANDTYPE_IS_OFFDB(type)
              THEN log' = Warn("offline", 0) /\ ReturnRaster
              ELSE IF UnsupportedPixtype(BANDTYPE_PIXTYPE(type))
              THEN log' = Warn("pixtype", 0) /\ ReturnRaster
              ELSE pc' = "gray_nodata" /\ UNCHANGED << log, result >>
    /\ UNCHANGED << hdrVars, bn, x, y, nodataval, inputVars >>

\* lines 186-196: the nodata byte, then into the pixel loops
GrayNodata ==
    /\ pc = "gray_nodata" /\ Mapped(ptr_, 1)
    /\ LET r == read_uint8(ptr_)
       IN  /\ ptr_' = r.ptr
           /\ bands' = [bands EXCEPT ![Len(bands)].nodata = r.val]
    /\ log' = IF BANDTYPE_HAS_NODATA(Last(bands).type) THEN Warn("hasnodata", 0) ELSE log
    /\ x' = 0 /\ y' = 0
    /\ IF 0 < height_ /\ 0 < width_
       THEN pc' = "gray_pixel" /\ UNCHANGED result
       ELSE ReturnRaster
    /\ UNCHANGED << hdrVars, raster, bn, nodataval, inputVars >>

\* lines 197-203: one pixel of the loops
GrayPixel ==
    /\ pc = "gray_pixel" /\ Mapped(ptr_, 1)
    /\ LET r == read_uint8(ptr_)
       IN  /\ ptr_' = r.ptr
           /\ raster' = [raster EXCEPT !.data = StoreGray(raster.data, PixelOff(y, x), r.val)]
    /\ IF x + 1 < width_
       THEN x' = x + 1 /\ UNCHANGED << y, pc, result >>
       ELSE /\ x' = 0 /\ y' = y + 1
            /\ IF y + 1 < height_ THEN UNCHANGED << pc, result >> ELSE ReturnRaster
    /\ UNCHANGED << hdrVars, log, bn, nodataval, bands, inputVars >>

\* ------------------------------------------------------------- read_rgb

\* lines 210-219: white image, nodataval declared, bn = 0
RgbBegin ==
    /\ pc = "read_rgb"
    /\ raster' = SetWhite(raster)
    /\ nodataval' = -1
    /\ bn' = 0
    /\ IF 0 < numBands_ THEN pc' = "rgb_type" /\ UNCHANGED result ELSE ReturnRaster
    /\ UNCHANGED << ptr_, hdrVars, log, x, y, bands, inputVars >>

\* ++bn and the loop test of line 219
NextBand ==
    /\ bn' = bn + 1
    /\ IF bn + 1 < numBands_ THEN pc' = "rgb_type" /\ UNCHANGED result ELSE ReturnRaster

\* lines 220-240: the type byte and the two continue branches
RgbType ==
    /\ pc = "rgb_type" /\ Mapped(ptr_, 1)
    /\ LET r == read_uint8(ptr_)
           type == r.val
       IN  /\ ptr_' = r.ptr
           /\ bands' = Append(bands, BandRead(type))
           /\ IF BANDTYPE_IS_OFFDB(type)
              THEN log' = Warn("offline", bn) /\ NextBand
              ELSE IF UnsupportedPixtype(BANDTYPE_PIXTYPE(type))
              THEN log' = Warn("pixtype", bn) /\ NextBand
              ELSE pc' = "rgb_nodata" /\ UNCHANGED << log, result, bn >>
    /\ UNCHANGED << hdrVars, raster, x, y, nodataval, inputVars >>

\* lines 242-252: the nodata byte and its comparison, then into the loops.
\* For bn > 0 the comparison reads nodataval, which nothing has written when
\* band 0 was skipped: it holds whatever the stack held.
RgbNodata ==
    /\ pc = "rgb_nodata" /\ Mapped(ptr_, 1)
    /\ LET r == read_uint8(ptr_)
           tmp == r.val
       IN  /\ ptr_' = r.ptr
           /\ bands' = [bands EXCEPT ![Len(bands)].nodata = tmp]
           /\ IF bn = 0
              THEN nodataval' = tmp /\ UNCHANGED log
              ELSE \E held \in (IF nodataval = -1 THEN StackGarbage ELSE {nodataval}) :
                     /\ nodataval' = held
                     /\ log' = IF tmp # held THEN Warn("nodata_mismatch", bn) ELSE log
    /\ x' = 0 /\ y' = 0
    /\ IF 0 < height_ /\ 0 < width_
       THEN pc' = "rgb_pixel" /\ UNCHANGED << result, bn >>
       ELSE NextBand
    /\ UNCHANGED << hdrVars, raster, inputVars >>

\* lines 253-267: one pixel of the loops
RgbPixel ==
    /\ pc = "rgb_pixel" /\ Mapped(ptr_, 1)
    /\ LET r == read_uint8(ptr_)
       IN  /\ ptr_' = r.ptr
           /\ raster' = [raster EXCEPT !.data = StoreBand(raster.data, PixelOff(y, x), bn, r.val)]
    /\ IF x + 1 < width_
       THEN x' = x + 1 /\ UNCHANGED << y, pc, result, bn >>
       ELSE /\ x' = 0 /\ y' = y + 1
            /\ IF y + 1 < height_ THEN UNCHANGED << pc, result, bn >> ELSE NextBand
    /\ UNCHANGED << hdrVars, log, nodataval, bands, inputVars >>

\* ------------------------------------------------- reads past the buffer

\* The number of bytes the read at position p takes (0: no read there).
ReadSize(p) ==
    IF p \in {"endian", "read_grayscale", "gray_nodata", "gray_pixel",
              "rgb_type", "rgb_nodata", "rgb_pixel"} THEN 1
    ELSE IF p \in {"version", "numBands", "width", "height"} THEN 2
    ELSE IF p = "srid" THEN 4
    ELSE IF p \in {"scaleX", "scaleY", "ipX", "ipY", "skewX", "skewY"} THEN 8
    ELSE 0

\* No reader checks the cursor against the end of the buffer (lines 41-114):
\* a read that leaves the buffer is undefined behaviour.  It yields the
\* bytes that lie there (the read actions) or faults (this action).
SegFault ==
    /\ ReadSize(pc) > 0
    /\ ~InBuf(ptr_, ReadSize(pc))
    /\ result' = "crash"
    /\ pc' = "done"
    /\ UNCHANGED << ptr_, hdrVars, raster, log, loopVars, inputVars >>

\* ------------------------------------------------------------ the inputs

\* Band tags: 8BUI; 8BSI with the has-nodata bit; off-database 8BUI;
\* 16BSI; 4BUI.
Tags == {4, 67, 132, 5, 2}
RgbTags == {4, 67, 132, 5}
Nodatas == {0, 4}
NodataTriples == { << 0, 0, 0 >>, << 0, 4, 0 >>, << 4, 0, 4 >>, << 4, 4, 0 >> }

GoodBand == [tag |-> 4, nodata |-> 0]

DefaultDesc ==
    [le |-> 1, version |-> 0, nBands |-> 1,
     scaleX |-> FInt(2), scaleY |-> FInt(-2), ipX |-> FInt(0), ipY |-> FInt(100),
     skewX |-> FInt(0), skewY |-> FInt(0), srid |-> 4326,
     width |-> MaxW, height |-> 1, bands |-> << GoodBand >>]

\* a buffer holding the whole encoding of d
Whole(d) == [d |-> d, size |-> Len(Encode(d)), tail |-> "none"]

\* Every size, every supported or skipped band, both byte orders.
PixelDescs ==
    { [DefaultDesc EXCEPT !.le = le, !.width = w, !.height = h, !.bands = << b >>] :
        le \in {0, 1}, w \in 0..MaxW, h \in 0..MaxH, b \in [tag : Tags, nodata : Nodatas] }
    \cup
    { [DefaultDesc EXCEPT !.le = le, !.nBands = 3, !.width = w, !.height = h,
                          !.bands = [k \in 1..3 |-> [tag |-> ts[k], nodata |-> ns[k]]]] :
        le \in {0, 1}, w \in 0..MaxW, h \in 0..MaxH,
        ts \in [1..3 -> RgbTags], ns \in NodataTriples }

Geometries ==
    { << FInt(2), FInt(-2), FInt(0), FInt(100) >>,
      << FInt(1), FInt(1), FInt(0), FInt(0) >>,
      << FInt(-3), FInt(5), FInt(7), FInt(-20) >> }

Skews ==
    { << FInt(0), FInt(0) >>, << FInt(1), FInt(0) >>, << FInt(0), FInt(-1) >>,
      << FNegZero, FInt(0) >>, << FInt(0), FNegZero >>, << FNaN, FInt(0) >>,
      << FInt(0), FNaN >> }

\* Every header: versions, band counts, skews, geometries, both byte orders.
HeaderDescs ==
    { [DefaultDesc EXCEPT !.le = le, !.nBands = nb, !.width = w, !.height = h,
                          !.scaleX = g[1], !.scaleY = g[2], !.ipX = g[3], !.ipY = g[4],
                          !.skewX = sk[1], !.skewY = sk[2], !.srid = -1,
                          !.bands = [k \in 1..nb |-> GoodBand]] :
        le \in {0, 1}, nb \in 0..3, w \in 0..MaxW, h \in 0..MaxH,
        g \in Geometries, sk \in Skews }
    \cup
    { [DefaultDesc EXCEPT !.le = le, !.version = v] : le \in {0, 1}, v \in {1, 256} }

\* The descriptors whose encodings are cut short.
TruncDescs ==
    { [DefaultDesc EXCEPT !.le = le] : le \in {0, 1} }
    \cup
    { [DefaultDesc EXCEPT !.le = le, !.nBands = 3, !.width = 1, !.height = MaxH,
                          !.bands = << GoodBand, [tag |-> 67, nodata |-> 4], GoodBand >>] :
        le \in {0, 1} }

\* A buffer cut short, followed in memory by the rest of the encoding or by
\* zero bytes.
Truncated ==
    UNION { { [d |-> d, size |-> n, tail |-> t] :
                n \in 0..(Len(Encode(d)) - 1), t \in {"rest", "zeros"} } : d \in TruncDescs }

\* The 10 x 5 raster with scale (2, -2) at origin (0, 100), in both byte orders.
ExampleDescs == { [DefaultDesc EXCEPT !.le = le, !.width = 10, !.height = 5] : le \in {0, 1} }

Inputs == { Whole(d) : d \in PixelDescs \cup HeaderDescs \cup ExampleDescs } \cup Truncated

\* The inputs of two decodes in a row.
PairInputs ==
    { Whole(d) : d \in
        { DefaultDesc,
          [DefaultDesc EXCEPT !.version = 1],
          [DefaultDesc EXCEPT !.skewX = FInt(1)],
          [DefaultDesc EXCEPT !.nBands = 2, !.bands = << GoodBand, GoodBand >>],
          [DefaultDesc EXCEPT !.bands = << [tag |-> 132, nodata |-> 0] >>],
          [DefaultDesc EXCEPT !.nBands = 3,
              !.bands = << GoodBand, [tag |-> 67, nodata |-> 4], [tag |-> 132, nodata |-> 0] >>] } }
    \cup { [d |-> DefaultDesc, size |-> n, tail |-> "zeros"] : n \in {3, 62} }

BufferOf(in) == SubSeq(Encode(in.d), 1, in.size)
BeyondOf(in) ==
    LET full == Encode(in.d)
    IN  IF in.tail = "rest" THEN SubSeq(full, in.size + 1, Len(full))
        ELSE [i \in 1..(Len(full) - in.size) |-> 0]

NoHeader ==
    [endian |-> 0, version |-> 0, scaleX |-> DInt(0), scaleY |-> DInt(0),
     ipX |-> DInt(0), ipY |-> DInt(0), skewX |-> DInt(0), skewY |-> DInt(0), srid |-> 0]

\* ------------------------------------------------------- the specification

\* A reader constructed on the buffer: the cursor at its first byte.
InitOn(in) ==
    /\ wkb_ = BufferOf(in) /\ beyond = BeyondOf(in) /\ desc = in.d
    /\ ptr_ = 0 /\ pc = "endian"
    /\ hdr = NoHeader /\ numBands_ = 0 /\ width_ = 0 /\ height_ = 0
    /\ raster = NoRaster /\ result = "pending" /\ log = << >>
    /\ bn = 0 /\ x = 0 /\ y = 0 /\ nodataval = -1 /\ bands = << >>
    /\ prev = << >>

Init == \E in \in Inputs : InitOn(in)

Next ==
    \/ ReadEndian \/ ReadVersion \/ ReadNumBands
    \/ ReadScaleX \/ ReadScaleY \/ ReadIpX \/ ReadIpY \/ ReadSkewX \/ ReadSkewY
    \/ ReadSrid \/ ReadWidth \/ ReadHeight
    \/ MakeRaster
    \/ GrayType \/ GrayNodata \/ GrayPixel
    \/ RgbBegin \/ RgbType \/ RgbNodata \/ RgbPixel
    \/ SegFault

Spec == Init /\ [][Next]_vars

\* Why the finished decode handed over no raster: the warning logged last.
Why == IF result = "null" THEN Last(log)[1] ELSE "none"

\* The caller keeps the outcome and decodes the next buffer with a new reader.
DecodeNext ==
    /\ pc = "done" /\ prev = << >>
    /\ \E in \in PairInputs :
         /\ wkb_' = BufferOf(in) /\ beyond' = BeyondOf(in) /\ desc' = in.d
    /\ ptr_' = 0 /\ pc' = "endian"
    /\ hdr' = NoHeader /\ numBands_' = 0 /\ width_' = 0 /\ height_' = 0
    /\ raster' = NoRaster /\ result' = "pending" /\ log' = << >>
    /\ bn' = 0 /\ x' = 0 /\ y' = 0 /\ nodataval' = -1 /\ bands' = << >>
    /\ prev' = << [result |-> result, why |-> Why] >>

InitPair == \E in \in PairInputs : InitOn(in)
NextPair == Next \/ DecodeNext
SpecPair == InitPair /\ [][NextPair]_vars

\* ------------------------------------------------------------- the claims

\* The buffer holds the whole encoding of the descriptor.
WholeInput == Len(wkb_) = Len(Encode(desc))
Done == pc = "done"

Unrotated(d) == FieldValue(d.skewX) = DInt(0) /\ FieldValue(d.skewY) = DInt(0)
ValidHeader(d) == d.version = 0 /\ Unrotated(d) /\ d.nBands \in {1, 3}

\* C1: a buffer shorter than the bytes its decode needs makes get_raster
\* fail with UnexpectedEndOfInput: no read moves the cursor past the end of
\* the buffer and no raster is returned.  (Every descriptor that is cut
\* short has supported bands only, so its decode needs the whole encoding.)
C1_TruncatedFails ==
    /\ ptr_ <= wkbsize
    /\ (Done /\ ~WholeInput => result = "UnexpectedEndOfInput")

\* C2: for a buffer that holds the whole encoding, get_raster returns a
\* raster if and only if version = 0, both skews are zero and the band
\* count is 1 or 3; otherwise it returns without one.
C2_RasterIff ==
    Done /\ WholeInput =>
        /\ result \in {"raster", "null"}
        /\ result = "raster" <=> ValidHeader(desc)

C2_Witness ==
    /\ Done /\ WholeInput /\ result = "null"
    /\ desc.version = 0 /\ Unrotated(desc) /\ desc.nBands = 2

\* The outcome of a decode that handed over no raster: the failure the
\* caller could tell from it ("fault": the process died in a read).
Failure == IF result = "crash" THEN "fault" ELSE Why
Failed == Done /\ result # "raster"
PrevFailed == prev # << >> /\ prev[1].result # "raster"
PrevFailure == IF prev[1].result = "crash" THEN "fault" ELSE prev[1].why

ExpectedWhy(d) ==
    IF d.version # 0 THEN "version"
    ELSE IF ~Unrotated(d) THEN "rotation"
    ELSE IF d.nBands \notin {1, 3} THEN "bandcount"
    ELSE "none"

C4_OffdbCursor ==
    [][ (pc \in {"read_grayscale", "rgb_type"} /\ InBuf(ptr_, 2)
         /\ BANDTYPE_IS_OFFDB(MemAt(ptr_)))
        => ptr_' = ptr_ + 2 ]_vars

\* A tag byte of a supported band: inline, pixel type 8BSI or 8BUI.
SupportedTag(t) == ~HasBit(t, 128) /\ (t % 16) \in {3, 4}

Pixels(d) == d.width * d.height
\* Byte c (0..3) of pixel (row, col) of the raster's buffer.
Channel(row, col, c) == raster.data[(row * desc.width + col) * 4 + c + 1]
SizedAsDeclared ==
    /\ raster.made /\ raster.width = desc.width /\ raster.height = desc.height
    /\ Len(raster.data) = 4 * Pixels(desc)

\* C5: for a valid 1-band input (version 0, no skew, inline 8BSI or 8BUI
\* band, whole payload present) the returned width*height raster has, in
\* every pixel (row, col), channels 0, 1 and 2 equal to payload byte
\* row*width + col and channel 3 equal to 255.
C5_Grayscale ==
    (Done /\ WholeInput /\ ValidHeader(desc) /\ desc.nBands = 1
     /\ SupportedTag(desc.bands[1].tag))
    => /\ result = "raster"
       /\ SizedAsDeclared
       /\ \A row \in 0..(desc.height - 1), col \in 0..(desc.width - 1) :
            /\ \A c \in 0..2 : Channel(row, col, c) = PixelByte(0, row * desc.width + col)
            /\ Channel(row, col, 3) = 255

C5_Witness ==
    /\ Done /\ WholeInput /\ result = "raster" /\ desc.nBands = 1 /\ desc.le = 0
    /\ desc.width = 2 /\ desc.height = 1 /\ desc.bands[1].tag = 4
    /\ SubSeq(raster.data, 1, 8) = << 10, 10, 10, 255, 20, 20, 20, 255 >>

\* C6: for a valid 3-band input whose bands are all supported, channel k
\* (0, 1, 2) of pixel (row, col) is byte row*width + col of band k's payload
\* and channel 3 is 255, whichever byte order the header declares.
C6_Rgb ==
    (Done /\ WholeInput /\ ValidHeader(desc) /\ desc.nBands = 3
     /\ \A k \in 1..3 : SupportedTag(desc.bands[k].tag))
    => /\ result = "raster"
       /\ SizedAsDeclared
       /\ \A row \in 0..(desc.height - 1), col \in 0..(desc.width - 1) :
            /\ \A c \in 0..2 : Channel(row, col, c) = PixelByte(c, row * desc.width + col)
            /\ Channel(row, col, 3) = 255

C6_Witness ==
    /\ Done /\ WholeInput /\ result = "raster" /\ desc.nBands = 3 /\ desc.le = 0
    /\ \A k \in 1..3 : SupportedTag(desc.bands[k].tag)
    /\ desc.width = MaxW /\ desc.height = MaxH
    /\ SubSeq(raster.data, 5, 8) = << 20, 23, 26, 255 >>

Box(x0, y0, x1, y1) ==
    [minx |-> DInt(x0), miny |-> DInt(y0), maxx |-> DInt(x1), maxy |-> DInt(y1)]

\* The extent of the returned raster is the rectangle spanned by
\* (originX, originY) and (originX + width*scaleX, originY + height*scaleY),
\* stored as min..max on each axis.
SpannedExtent ==
    (Done /\ WholeInput /\ result = "raster") =>
        LET x0 == desc.ipX.v
            y0 == desc.ipY.v
            x1 == desc.ipX.v + desc.width * desc.scaleX.v
            y1 == desc.ipY.v + desc.height * desc.scaleY.v
        IN  raster.ext = Box(Min(x0, x1), Min(y0, y1), Max(x0, x1), Max(y0, y1))

\* The raster of scaleX=2, scaleY=-2, originX=0, originY=100, width=10,
\* height=5 has been returned.
ExampleReturned ==
    /\ Done /\ WholeInput /\ result = "raster"
    /\ desc.scaleX = FInt(2) /\ desc.scaleY = FInt(-2)
    /\ desc.ipX = FInt(0) /\ desc.ipY = FInt(100)
    /\ desc.width = 10 /\ desc.height = 5

\* C7 (as claimed): the extent is the min..max rectangle spanned by the two
\* corners, and scaleX=2, scaleY=-2, originX=0, originY=100, width=10,
\* height=5 yields the extent [0,0]-[20,100].
C7_ExtentExample0 ==
    /\ SpannedExtent
    /\ ExampleReturned => raster.ext = Box(0, 0, 20, 100)

\* C7 (amended): the extent is the min..max rectangle spanned by the two
\* corners, also when a scale is negative; scaleX=2, scaleY=-2, originX=0,
\* originY=100, width=10, height=5 yields [0,90]-[20,100], since
\* 100 + 5*(-2) = 90.
C7_Extent ==
    /\ SpannedExtent
    /\ ExampleReturned => raster.ext = Box(0, 90, 20, 100)

C7_Witness == ExampleReturned /\ raster.ext = Box(0, 90, 20, 100)

AllSupported(d) == \A k \in 1..d.nBands : SupportedTag(d.bands[k].tag)

\* The layout of one forward pass over a header of H bytes: the header
\* parse ends at offset H having read no band byte; with N in {1,3}
\* supported bands, band k's tag is read at H + k*(2 + width*height) and
\* the decode ends at H + N*(2 + width*height).
ForwardLayout(H) ==
    (WholeInput /\ ValidHeader(desc)) =>
        /\ pc = "check" => ptr_ = H /\ bands = << >>
        /\ AllSupported(desc) =>
             /\ \A k \in 1..Len(bands) : bands[k].off = H + (k - 1) * (2 + Pixels(desc))
             /\ Done => /\ result = "raster"
                        /\ Len(bands) = desc.nBands
                        /\ ptr_ = H + desc.nBands * (2 + Pixels(desc))

CursorForward == [][ptr_' >= ptr_]_vars

\* C8 (as claimed): the decode is one forward pass over the wire layout
\* with a header of 77 bytes: the header parse consumes exactly 77 bytes,
\* band k's tag is read at 77 + k*(2 + width*height), and the final cursor
\* position is 77 + N*(2 + width*height).
C8_Layout77 == ForwardLayout(77)

\* C8 (amended): the same with the header the code reads, which is 61
\* bytes (1 + 2 + 2 + 6*8 + 4 + 2 + 2): the header parse consumes exactly
\* 61 bytes and reads no pixel byte, band k's tag is read at offset
\* 61 + k*(2 + width*height) after the whole payload of the band before it,
\* the cursor never moves backwards, and the decode ends at
\* 61 + N*(2 + width*height).
C8_Layout61 == []ForwardLayout(61) /\ CursorForward

C8_Witness ==
    /\ Done /\ WholeInput /\ desc.nBands = 3 /\ AllSupported(desc)
    /\ desc.width = MaxW /\ desc.height = MaxH
    /\ Len(bands) = 3
    /\ bands[3].off = 61 + 2 * (2 + MaxW * MaxH)
    /\ ptr_ = 61 + 3 * (2 + MaxW * MaxH)

\* Band k (1-based position in bands) was processed: its nodata byte was read.
Processed(k) == bands[k].nodata # -1
Warned(what, band) == \E i \in 1..Len(log) : log[i] = << what, band >>
FirstProcessed(k) == Processed(k) /\ \A j \in 1..(k - 1) : ~Processed(j)

\* C9: in the RGB path the nodata value remembered is that of the first
\* band processed, and a mismatch warning is raised for a later processed
\* band exactly when its nodata byte differs from it; with band 0 skipped
\* the comparison is against band 1's value, never an unset one.
C9_NodataAgainstFirst ==
    (Done /\ result = "raster" /\ numBands_ = 3 /\ ptr_ <= wkbsize) =>
        \A k \in 1..Len(bands) :
            Warned("nodata_mismatch", k - 1)
            <=> /\ Processed(k)
                /\ \E f \in 1..(k - 1) :
                     FirstProcessed(f) /\ bands[k].nodata # bands[f].nodata

====
